---- MODULE Spec2Model ----
(***************************************************************************)
(* Invoice processing service: InvoiceExtractor, TaxMatcher and            *)
(* InvoiceProcessor.                                                       *)
(*                                                                         *)
(* Representation.                                                         *)
(*   - A Python str is a sequence of one-character strings, so that        *)
(*     strip(), lower(), upper(), "in" and concatenation are computed.     *)
(*   - A Python float is an exact fixed-point integer.  Money is counted   *)
(*     in units of 1/MoneyScale of a currency unit, a tax rate in units of *)
(*     1/RateScale of a percent, a quantity in whole units.  Binary        *)
(*     floating-point representation error and the non-finite values      *)
(*     (inf, nan) are not modelled.                                        *)
(*   - A JSON value of the extraction response is a tagged record          *)
(*     (JNum, JStr, JNull, JAbsent).                                       *)
(*   - The outcome of one call to the external chat-completion capability  *)
(*     is a record: the call raised, or it returned a message content      *)
(*     (possibly None) with or without a usage block.                      *)
(***************************************************************************)
EXTENDS Integers, Sequences, FiniteSets, TLC

VARIABLES
    \* TaxMatcher
    categories, tax_rates, tm_last_prompt_tokens, tm_last_completion_tokens,
    \* InvoiceExtractor
    ex_last_prompt_tokens, ex_last_completion_tokens,
    \* InvoiceProcessor
    results, total_prompt_tokens, total_completion_tokens,
    \* process_all_invoices / main: the files to process and the loop position
    invoice_files, file_idx, pc,
    \* process_invoice locals
    extracted_data, is_tax_exempt, invoice_prompt_tokens,
    invoice_completion_tokens, processed_line_items, total_pre_tax,
    total_tax, item_idx,
    \* the external capability as seen by the program: the calls issued so
    \* far, the outcome of the latest call, what the latest component call
    \* returned, and the exception (if any) that left process_invoice
    calls, response, returned, raised,
    \* what the capability reported for the calls of the invoice in hand
    \* (usage as delivered, whether or not the program read it), and how each
    \* process_invoice invocation so far ended
    reported, attempts,
    \* the figures of save_summary_report once main has written the report
    summary,
    \* how main runs the processor: one file named on the command line
    \* ("single"), the whole directory ("batch"), or a TaxMatcher used on its
    \* own as in test_detailed.py ("matcher")
    run_mode

vars == <<categories, tax_rates, tm_last_prompt_tokens, tm_last_completion_tokens,
          ex_last_prompt_tokens, ex_last_completion_tokens,
          results, total_prompt_tokens, total_completion_tokens,
          invoice_files, file_idx, pc,
          extracted_data, is_tax_exempt, invoice_prompt_tokens,
          invoice_completion_tokens, processed_line_items, total_pre_tax,
          total_tax, item_idx, calls, response, returned, raised,
          reported, attempts, summary, run_mode>>

matcher_vars == <<categories, tax_rates, tm_last_prompt_tokens, tm_last_completion_tokens>>
extractor_vars == <<ex_last_prompt_tokens, ex_last_completion_tokens>>
processor_vars == <<results, total_prompt_tokens, total_completion_tokens>>
batch_vars == <<invoice_files, file_idx, run_mode>>
trace_vars == <<reported, attempts>>
local_vars == <<extracted_data, is_tax_exempt, invoice_prompt_tokens,
                invoice_completion_tokens, processed_line_items, total_pre_tax,
                total_tax, item_idx>>

----------------------------------------------------------------------------
(* Bounds *)

MaxRows == 3          \* rows of the tax-rate CSV file
MaxItems == 2         \* line items of one extracted invoice
MaxFiles == 2         \* files of one batch run
MaxCalls == 1         \* direct TaxMatcher.match_category calls on one matcher

(* Scales of the fixed-point representation *)

MoneyScale == 100000  \* money units per currency unit
RateScale == 10       \* rate units per percent
CentUnits == 1000     \* money units per 0.01 currency unit

----------------------------------------------------------------------------
(* Python str operations *)

UpperChars == <<"A", "B", "C", "D", "E", "F", "G", "H", "I", "J", "K", "L", "M",
                "N", "O", "P", "Q", "R", "S", "T", "U", "V", "W", "X", "Y", "Z">>
LowerChars == <<"a", "b", "c", "d", "e", "f", "g", "h", "i", "j", "k", "l", "m",
                "n", "o", "p", "q", "r", "s", "t", "u", "v", "w", "x", "y", "z">>
Whitespace == {" ", "\t", "\n", "\r"}

ToLower == [c \in {UpperChars[i] : i \in 1..26} |->
               LowerChars[CHOOSE i \in 1..26 : UpperChars[i] = c]]
LowerChar(c) == IF c \in DOMAIN ToLower THEN ToLower[c] ELSE c

ToUpper == [c \in {LowerChars[i] : i \in 1..26} |->
               UpperChars[CHOOSE i \in 1..26 : LowerChars[i] = c]]
UpperChar(c) == IF c \in DOMAIN ToUpper THEN ToUpper[c] ELSE c

Lower(s) == [i \in 1..Len(s) |-> LowerChar(s[i])]
Upper(s) == [i \in 1..Len(s) |-> UpperChar(s[i])]

RECURSIVE LStrip(_)
LStrip(s) ==
    IF s # <<>> /\ Head(s) \in Whitespace THEN LStrip(Tail(s)) ELSE s

RECURSIVE RStrip(_)
RStrip(s) ==
    IF s # <<>> /\ s[Len(s)] \in Whitespace
    THEN RStrip(SubSeq(s, 1, Len(s) - 1))
    ELSE s

Strip(s) == RStrip(LStrip(s))

\* Python "sub in s" for two str
Contains(sub, s) ==
    \E i \in 0..(Len(s) - Len(sub)) : SubSeq(s, i + 1, i + Len(sub)) = sub

----------------------------------------------------------------------------
(* String literals of the program *)

PackagedSnacks == <<"P", "a", "c", "k", "a", "g", "e", "d", " ", "S", "n", "a", "c", "k", "s">>
TAX_EXEMPT_MARKER == <<" ", "(", "T", "A", "X", "-", "E", "X", "E", "M", "P", "T", ")">>
YES == <<"Y", "E", "S">>
ERROR == <<"E", "R", "R", "O", "R">>
UNKNOWN == <<"U", "N", "K", "N", "O", "W", "N">>
FailedToExtract == <<"F", "a", "i", "l", "e", "d", " ", "t", "o", " ", "e", "x", "t", "r", "a", "c", "t", " ", "d", "a", "t", "a">>
ExtractionErrorPrefix == <<"E", "x", "t", "r", "a", "c", "t", "i", "o", "n", " ", "e", "r", "r", "o", "r", ":", " ">>
DEFAULT_RATE == 40    \* 4.0 percent

\* Python None where a str is expected (never equal to a str of the model)
None == <<"<None>">>

----------------------------------------------------------------------------
(* Outcomes of one chat-completion call *)

NoUsage == [reported |-> FALSE, prompt_tokens |-> 0, completion_tokens |-> 0]
Usage(p, c) == [reported |-> TRUE, prompt_tokens |-> p, completion_tokens |-> c]

\* the call raised (network error, API error, timeout)
CallFailed == [kind |-> "fail", content |-> None, usage |-> NoUsage]
\* the call returned a message whose content is `content` (None allowed)
CallOk(content, usage) == [kind |-> "ok", content |-> content, usage |-> usage]
\* no call issued yet
NoCall == [kind |-> "none", content |-> None, usage |-> NoUsage]

----------------------------------------------------------------------------
(* TaxMatcher *)

\* _load_tax_rates: rows of the CSV file, <<Category, Tax Rate>> each, in file
\* order; a later row of the same category overwrites the rate and the name
\* is appended to the category list again.
LoadCategories(rows) == [i \in 1..Len(rows) |-> Strip(rows[i][1])]

LoadTaxRates(rows) ==
    LET names == {Strip(rows[i][1]) : i \in 1..Len(rows)}
        last(n) == CHOOSE i \in 1..Len(rows) :
                      /\ Strip(rows[i][1]) = n
                      /\ \A j \in (i + 1)..Len(rows) : Strip(rows[j][1]) # n
    IN  [n \in names |-> rows[last(n)][2]]

\* the substring test of the fallback loop
CloseMatch(valid_category, category) ==
    \/ Contains(Lower(valid_category), Lower(category))
    \/ Contains(Lower(category), Lower(valid_category))

\* variant: the loop keeps the last category accepted instead of the first
RECURSIVE LastCloseMatch(_, _, _)
LastCloseMatch(cats, category, i) ==
    IF i > Len(cats) THEN 0
    ELSE LET later == LastCloseMatch(cats, category, i + 1)
         IN  IF later # 0 THEN later
             ELSE IF CloseMatch(cats[i], category) THEN i
             ELSE 0

\* the fallback loop: index of the first category accepted from position i on,
\* 0 when the loop ends without a return
RECURSIVE FirstCloseMatch(_, _, _)
FirstCloseMatch(cats, category, i) ==
    IF i > Len(cats) THEN 0
    ELSE IF CloseMatch(cats[i], category) THEN i
    ELSE FirstCloseMatch(cats, category, i + 1)

\* dict.get("Packaged Snacks", 4.0)
DefaultCategory(rates) ==
    [category |-> PackagedSnacks,
     rate |-> IF PackagedSnacks \in DOMAIN rates THEN rates[PackagedSnacks]
              ELSE DEFAULT_RATE]

\* variant: the response is returned without validation against the table
match_category_unvalidated(cats, rates, outcome) ==
    IF outcome.kind # "ok" \/ outcome.content = None
    THEN DefaultCategory(rates)
    ELSE LET category == Strip(outcome.content)
         IN  [category |-> category,
              rate |-> IF category \in DOMAIN rates THEN rates[category]
                       ELSE DEFAULT_RATE]

\* variant: the exact-match test is missing, only the fallback loop runs
match_category_noexact(cats, rates, outcome) ==
    IF outcome.kind # "ok" \/ outcome.content = None
    THEN DefaultCategory(rates)
    ELSE LET category == Strip(outcome.content)
             k == FirstCloseMatch(cats, category, 1)
         IN  IF k # 0
             THEN [category |-> cats[k], rate |-> rates[cats[k]]]
             ELSE DefaultCategory(rates)

\* the (category, rate) pair match_category returns for a capability outcome
match_category(cats, rates, outcome) ==
    IF outcome.kind # "ok" \/ outcome.content = None
    THEN DefaultCategory(rates)
    ELSE LET category == Strip(outcome.content)
             k == FirstCloseMatch(cats, category, 1)
         IN  IF category \in DOMAIN rates
             THEN [category |-> category, rate |-> rates[category]]
             ELSE IF k # 0
             THEN [category |-> cats[k], rate |-> rates[cats[k]]]
             ELSE DefaultCategory(rates)

\* last_prompt_tokens / last_completion_tokens after a call: overwritten only
\* when the call returned and carried a usage block
CapturedPrompt(old, outcome) ==
    IF outcome.kind = "ok" /\ outcome.usage.reported
    THEN outcome.usage.prompt_tokens ELSE old

CapturedCompletion(old, outcome) ==
    IF outcome.kind = "ok" /\ outcome.usage.reported
    THEN outcome.usage.completion_tokens ELSE old

\* the usage the capability delivered for one call, added to a running pair:
\* response.usage of a call that returned, nothing for a call that raised or
\* was not issued
Delivered(sofar, outcome) ==
    IF outcome.kind = "ok" /\ outcome.usage.reported
    THEN [prompt_tokens |-> sofar.prompt_tokens + outcome.usage.prompt_tokens,
          completion_tokens |->
              sofar.completion_tokens + outcome.usage.completion_tokens]
    ELSE sofar

\* Python's sum() over a sequence of numbers
RECURSIVE Sum(_)
Sum(seq) == IF seq = <<>> THEN 0 ELSE seq[1] + Sum(Tail(seq))

----------------------------------------------------------------------------
(* JSON values of the extraction response and Python float() *)

JNum(n) == [t |-> "num", n |-> n, s |-> <<>>]
JStr(s) == [t |-> "str", n |-> 0, s |-> s]
JNull == [t |-> "null", n |-> 0, s |-> <<>>]
JAbsent == [t |-> "absent", n |-> 0, s |-> <<>>]   \* the key is missing

\* dict.get(key, default): the default is used only when the key is missing
Get(v, default) == IF v.t = "absent" THEN default ELSE v

Digits == <<"0", "1", "2", "3", "4", "5", "6", "7", "8", "9">>
IsDigit(c) == \E i \in 1..10 : Digits[i] = c
DigitVal(c) == (CHOOSE i \in 1..10 : Digits[i] = c) - 1

RECURSIVE DigitsVal(_)
DigitsVal(s) ==
    IF s = <<>> THEN 0
    ELSE 10 * DigitsVal(SubSeq(s, 1, Len(s) - 1)) + DigitVal(s[Len(s)])

RECURSIVE Pow10(_)
Pow10(k) == IF k = 0 THEN 1 ELSE 10 * Pow10(k - 1)

Raise(err) == [ok |-> FALSE, v |-> 0, err |-> err]
Value(v) == [ok |-> TRUE, v |-> v, err |-> ""]

\* float(str): surrounding whitespace is ignored; an unsigned decimal numeral
\* with at most one point is accepted, anything else is a ValueError.  `one`
\* is the number of model units in 1.0.
ParseFloat(str, one) ==
    LET s == Strip(str)
        dots == {i \in 1..Len(s) : s[i] = "."}
        p == IF dots = {} THEN Len(s) + 1 ELSE CHOOSE i \in dots : TRUE
        ip == SubSeq(s, 1, p - 1)
        fp == SubSeq(s, p + 1, Len(s))
    IN  IF /\ Cardinality(dots) <= 1
           /\ Len(ip) + Len(fp) > 0
           /\ \A i \in 1..Len(ip) : IsDigit(ip[i])
           /\ \A i \in 1..Len(fp) : IsDigit(fp[i])
        THEN Value(DigitsVal(ip) * one + (DigitsVal(fp) * one) \div Pow10(Len(fp)))
        ELSE Raise("ValueError")

\* float(x) for a JSON value that is present
PyFloat(x, one) ==
    CASE x.t = "num" -> Value(x.n)
      [] x.t = "str" -> ParseFloat(x.s, one)
      [] OTHER -> Raise("TypeError")        \* float(None)

\* round(x, 2) on a money amount: to the nearest cent, ties to even
Round2(x) ==
    LET q == x \div CentUnits
        r == x % CentUnits
    IN  IF 2 * r < CentUnits THEN q * CentUnits
        ELSE IF 2 * r > CentUnits THEN (q + 1) * CentUnits
        ELSE IF q % 2 = 0 THEN q * CentUnits
        ELSE (q + 1) * CentUnits

----------------------------------------------------------------------------
(* InvoiceExtractor *)

PdfSuffix == <<".", "p", "d", "f">>

\* the line_items value of an extraction: a list, null, or missing
ItemList(items) == [t |-> "list", items |-> items]
ItemsNull == [t |-> "null", items |-> <<>>]
ItemsAbsent == [t |-> "absent", items |-> <<>>]

\* the record returned when the file is not a PDF or no page image was produced
FallbackRecord ==
    [invoice_number |-> JStr(UNKNOWN), vendor_name |-> JStr(UNKNOWN),
     invoice_date |-> JStr(<<>>), line_items |-> ItemList(<<>>),
     notes |-> JStr(FailedToExtract)]

\* the record returned from the except branch; e is str(exception)
ErrorRecord(e) ==
    [invoice_number |-> JStr(ERROR), vendor_name |-> JStr(ERROR),
     invoice_date |-> JStr(<<>>), line_items |-> ItemList(<<>>),
     notes |-> JStr(ExtractionErrorPrefix \o e)]

\* the message content of an extraction call: None, text json.loads rejects,
\* or text json.loads parses to the object `data`
ContentNone == [t |-> "none", data |-> FallbackRecord]
ContentMalformed == [t |-> "malformed", data |-> FallbackRecord]
ContentJson(data) == [t |-> "json", data |-> data]

ExtractFailed(e) == [kind |-> "fail", content |-> ContentNone, usage |-> NoUsage, err |-> e]
ExtractOk(content, usage) == [kind |-> "ok", content |-> content, usage |-> usage, err |-> <<>>]
ExtractNoCall == [kind |-> "none", content |-> ContentNone, usage |-> NoUsage, err |-> <<>>]

\* whether extract_invoice_data reaches chat.completions.create
ExtractCalls(suffix, rendered) == Lower(suffix) = PdfSuffix /\ rendered

\* variant: a response json.loads rejects is treated like a missing image
extract_invoice_data_unparsed(suffix, rendered, outcome) ==
    IF ~ExtractCalls(suffix, rendered) THEN FallbackRecord
    ELSE IF outcome.kind # "ok" THEN ErrorRecord(outcome.err)
    ELSE IF outcome.content.t # "json" THEN FallbackRecord
    ELSE outcome.content.data

\* the dictionary extract_invoice_data returns; `rendered` tells whether
\* _pdf_to_base64_images produced an image, `outcome` is the outcome of the
\* call when one is made
extract_invoice_data(suffix, rendered, outcome) ==
    IF ~ExtractCalls(suffix, rendered) THEN FallbackRecord
    ELSE IF outcome.kind # "ok" THEN ErrorRecord(outcome.err)
    ELSE IF outcome.content.t # "json" THEN ErrorRecord(<<"J", "S", "O", "N">>)
    ELSE outcome.content.data

----------------------------------------------------------------------------
(* InvoiceProcessor._check_tax_exempt *)

\* "not notes or notes.strip() == ''" for the value of the notes field
NotesBlank(notes) ==
    CASE notes.t = "null" -> TRUE
      [] notes.t = "num" -> notes.n = 0
      [] OTHER -> Strip(notes.s) = <<>>

\* notes.strip() on a value that is not a str raises AttributeError
NotesRaises(notes) == notes.t = "num" /\ notes.n # 0

\* variant: the answer is compared without upper()
check_tax_exempt_cased(notes, outcome) ==
    IF NotesBlank(notes) \/ outcome.kind # "ok" \/ outcome.content = None
    THEN [exempt |-> FALSE, prompt_tokens |-> 0, completion_tokens |-> 0]
    ELSE [exempt |-> Strip(outcome.content) = YES,
          prompt_tokens |-> IF outcome.usage.reported
                            THEN outcome.usage.prompt_tokens ELSE 0,
          completion_tokens |-> IF outcome.usage.reported
                                THEN outcome.usage.completion_tokens ELSE 0]

\* the tuple (is_tax_exempt, prompt_tokens, completion_tokens)
check_tax_exempt(notes, outcome) ==
    IF NotesBlank(notes) \/ outcome.kind # "ok" \/ outcome.content = None
    THEN [exempt |-> FALSE, prompt_tokens |-> 0, completion_tokens |-> 0]
    ELSE [exempt |-> Upper(Strip(outcome.content)) = YES,
          prompt_tokens |-> IF outcome.usage.reported
                            THEN outcome.usage.prompt_tokens ELSE 0,
          completion_tokens |-> IF outcome.usage.reported
                                THEN outcome.usage.completion_tokens ELSE 0]

----------------------------------------------------------------------------
(* Inputs: CSV files, documents and capability outcomes *)

Snacks == <<"S", "n", "a", "c", "k", "s">>
Batteries == <<"B", "a", "t", "t", "e", "r", "i", "e", "s">>
CarBatteries == <<"C", "a", "r", " ", "B", "a", "t", "t", "e", "r", "i", "e", "s">>
r_snacks == <<"s", "n", "a", "c", "k", "s">>
r_padded == <<" ", "C", "a", "r", " ", "B", "a", "t", "t", "e", "r", "i", "e", "s", "\n">>
r_zzz == <<"z", "z", "z">>
r_yes == <<" ", "y", "e", "s", "\n">>
r_no == <<"N", "O">>
r_yesdot == <<"Y", "e", "s", ".">>
n_exempt == <<"t", "a", "x", " ", "e", "x", "e", "m", "p", "t">>
n_blank == <<" ", " ">>
s_two == <<"2">>
s_price == <<" ", "1", ".", "9", "9">>
s_abc == <<"a", "b", "c">>
TxtSuffix == <<".", "t", "x", "t">>
PdfUpperSuffix == <<".", "P", "D", "F">>

UsagePool == {NoUsage, Usage(2, 1)}

RECURSIVE SeqsUpTo(_, _)
SeqsUpTo(S, n) ==
    IF n = 0 THEN {<<>>}
    ELSE LET shorter == SeqsUpTo(S, n - 1)
         IN  shorter \cup {Append(q, x) : q \in {r \in shorter : Len(r) = n - 1}, x \in S}

\* CSV files that _load_tax_rates accepts (at least one row)
CsvRowPool == {<<PackagedSnacks, 40>>, <<PackagedSnacks, 75>>, <<Snacks, 75>>,
               <<CarBatteries, 75>>, <<r_snacks, 0>>}
CsvPool == SeqsUpTo(CsvRowPool, MaxRows) \ {<<>>}

\* the CSV files of the processor runs
ProcessorCsvPool == {<<<<CarBatteries, 75>>, <<PackagedSnacks, 40>>>>,
                     <<<<Batteries, 40>>, <<CarBatteries, 80>>>>}

MatcherResponsePool == {r_snacks, Snacks, PackagedSnacks, r_padded, r_zzz, <<>>}
MatcherOutcomes ==
    {CallFailed, CallOk(None, Usage(2, 1))}
    \cup {CallOk(r, u) : r \in MatcherResponsePool, u \in UsagePool}

ClassifyOutcomes ==
    {CallFailed, CallOk(None, Usage(2, 1)), CallOk(CarBatteries, Usage(2, 1)),
     CallOk(r_snacks, NoUsage)}

ExemptOutcomes ==
    {CallFailed, CallOk(None, Usage(2, 1)), CallOk(YES, NoUsage),
     CallOk(r_yes, Usage(2, 1)), CallOk(r_no, Usage(2, 1)),
     CallOk(r_yesdot, Usage(2, 1))}

Item(d, q, u, t) == [description |-> d, quantity |-> q, unit_price |-> u, total |-> t]

\* line items float() accepts
GoodItemPool ==
    {Item("A", JNum(2), JNum(199000), JAbsent),
     Item("B", JAbsent, JNum(100000), JNum(10000000)),
     Item("C", JNum(3), JAbsent, JAbsent),
     Item("D", JStr(s_two), JStr(s_price), JNum(4400))}

\* line items on which float() raises
BadItemPool ==
    {Item("E", JNull, JNum(100000), JAbsent),
     Item("F", JNum(2), JNull, JNum(300000)),
     Item("G", JNum(2), JNum(150000), JNull),
     Item("H", JStr(s_abc), JNum(100000), JAbsent)}

ItemPool == GoodItemPool \cup BadItemPool

NotesPool == {JStr(<<>>), JStr(n_blank), JStr(n_exempt), JNull, JAbsent, JNum(5)}

Doc(items, notes) ==
    [invoice_number |-> JStr(<<"7">>), vendor_name |-> JStr(<<"V">>),
     invoice_date |-> JStr(<<>>), line_items |-> items, notes |-> notes]

\* item lists: the loop stops at the first item float() rejects
ItemListPool ==
    {l \in SeqsUpTo(ItemPool, MaxItems) : \A i \in 1..(Len(l) - 1) : l[i] \in GoodItemPool}

OneItem == <<Item("A", JNum(2), JNum(199000), JAbsent)>>

\* what the extraction call returns for a document when it succeeds
DocPool ==
    {Doc(ItemList(l), n) : l \in ItemListPool, n \in {JStr(n_exempt), JAbsent}}
    \cup {Doc(ItemList(OneItem), n) : n \in NotesPool}
    \cup {Doc(ItemsNull, JAbsent), Doc(ItemsAbsent, JStr(n_exempt))}

File(suffix, content) == [suffix |-> suffix, content |-> content]

\* a file named on the command line
FilePool ==
    {File(PdfSuffix, d) : d \in DocPool}
    \cup {File(x, Doc(ItemList(OneItem), JStr(n_exempt))) : x \in {PdfUpperSuffix, TxtSuffix}}

\* a credit line: negative unit price
CreditItem == <<Item("N", JNum(1), JNum(-199000), JAbsent)>>

\* the files glob('*.pdf') finds in a batch run
BatchFilePool ==
    {File(PdfSuffix, Doc(ItemList(OneItem), JStr(n_exempt))),
     File(PdfSuffix, Doc(ItemList(CreditItem), JAbsent)),
     File(PdfSuffix, Doc(ItemsNull, JAbsent)),
     File(PdfSuffix, Doc(ItemList(<<Item("E", JNull, JNum(100000), JAbsent)>>), JNull)),
     File(PdfSuffix, Doc(ItemList(<<>>), JNum(5)))}

\* the table of the batch runs
BatchCsvPool == {<<<<CarBatteries, 75>>, <<PackagedSnacks, 40>>>>}

\* the outcomes of the calls of a run: a single-file run meets every kind of
\* outcome, a batch run (several invoices in a row) the two that matter
\* across invoices, a call that raises and a call that answers with usage
ExtractOutcomes(f) ==
    IF run_mode = "batch"
    THEN {ExtractFailed(<<>>), ExtractOk(ContentJson(f.content), Usage(2, 1))}
    ELSE {ExtractFailed(<<>>), ExtractOk(ContentNone, NoUsage),
          ExtractOk(ContentMalformed, Usage(2, 1))}
         \cup {ExtractOk(ContentJson(f.content), u) : u \in UsagePool}

ExemptOutcomesOf(mode) ==
    IF mode = "batch" THEN {CallFailed, CallOk(r_yes, Usage(2, 1))}
    ELSE ExemptOutcomes

ClassifyOutcomesOf(mode) ==
    IF mode = "batch" THEN {CallFailed, CallOk(CarBatteries, Usage(2, 1))}
    ELSE ClassifyOutcomes

----------------------------------------------------------------------------
(* Initial states *)

NoData ==
    [invoice_number |-> JAbsent, vendor_name |-> JAbsent, invoice_date |-> JAbsent,
     line_items |-> ItemsAbsent, notes |-> JAbsent]

NoneReported == [prompt_tokens |-> 0, completion_tokens |-> 0]
NoSummary == [written |-> FALSE]
NoReturn == [op |-> "none"]

\* TaxMatcher.__init__, InvoiceExtractor.__init__, InvoiceProcessor.__init__
InitObjects(csv) ==
    /\ categories = LoadCategories(csv)
    /\ tax_rates = LoadTaxRates(csv)
    /\ tm_last_prompt_tokens = 0
    /\ tm_last_completion_tokens = 0
    /\ ex_last_prompt_tokens = 0
    /\ ex_last_completion_tokens = 0
    /\ results = <<>>
    /\ total_prompt_tokens = 0
    /\ total_completion_tokens = 0
    /\ file_idx = 1
    /\ extracted_data = NoData
    /\ is_tax_exempt = FALSE
    /\ invoice_prompt_tokens = 0
    /\ invoice_completion_tokens = 0
    /\ processed_line_items = <<>>
    /\ total_pre_tax = 0
    /\ total_tax = 0
    /\ item_idx = 1
    /\ calls = <<>>
    /\ response = NoCall
    /\ returned = NoReturn
    /\ raised = ""
    /\ reported = NoneReported
    /\ attempts = <<>>
    /\ summary = NoSummary

\* main with a file argument: process_invoice on that file
InitSingle ==
    /\ \E csv \in ProcessorCsvPool : InitObjects(csv)
    /\ run_mode = "single"
    /\ invoice_files \in {<<f>> : f \in FilePool}
    /\ pc = "start"

\* main without argument: process_all_invoices over the *.pdf files
InitBatch ==
    /\ \E csv \in BatchCsvPool : InitObjects(csv)
    /\ run_mode = "batch"
    /\ invoice_files \in SeqsUpTo(BatchFilePool, MaxFiles)
    /\ pc = "start"

Init == InitSingle

\* a TaxMatcher on its own, loaded from any accepted CSV file
InitMatcher ==
    /\ \E csv \in CsvPool : InitObjects(csv)
    /\ run_mode = "matcher"
    /\ invoice_files = <<>>
    /\ pc = "matcher"

----------------------------------------------------------------------------
(* process_invoice *)

ResetLocals ==
    /\ extracted_data' = NoData
    /\ is_tax_exempt' = FALSE
    /\ invoice_prompt_tokens' = 0
    /\ invoice_completion_tokens' = 0
    /\ processed_line_items' = <<>>
    /\ total_pre_tax' = 0
    /\ total_tax' = 0
    /\ item_idx' = 1

\* variant: the batch loop ends at the first exception instead of continuing
AbortEndsLoop(err) ==
    /\ raised' = err
    /\ ResetLocals
    /\ IF run_mode = "batch"
       THEN file_idx' = Len(invoice_files) + 1 /\ pc' = "start"
       ELSE file_idx' = file_idx /\ pc' = "exit"
    /\ returned' = [op |-> "raise"]
    /\ attempts' = Append(attempts, <<file_idx, "raised">>)
    /\ UNCHANGED <<matcher_vars, extractor_vars, processor_vars, invoice_files,
                   run_mode, calls, response, reported, summary>>

\* variant: the tokens spent on the aborted invoice are added to the
\* cumulative counters
AbortCountsTokens(err) ==
    /\ raised' = err
    /\ ResetLocals
    /\ IF run_mode = "batch"
       THEN file_idx' = file_idx + 1 /\ pc' = "start"
       ELSE file_idx' = file_idx /\ pc' = "exit"
    /\ returned' = [op |-> "raise"]
    /\ attempts' = Append(attempts, <<file_idx, "raised">>)
    /\ total_prompt_tokens' = total_prompt_tokens + invoice_prompt_tokens
    /\ total_completion_tokens' = total_completion_tokens + invoice_completion_tokens
    /\ UNCHANGED <<matcher_vars, extractor_vars, results, invoice_files,
                   run_mode, calls, response, reported, summary>>

\* an exception leaves process_invoice: process_all_invoices prints it and
\* continues with the next file; in main it ends the program (sys.exit(1))
Abort(err) ==
    /\ raised' = err
    /\ ResetLocals
    /\ IF run_mode = "batch"
       THEN file_idx' = file_idx + 1 /\ pc' = "start"
       ELSE file_idx' = file_idx /\ pc' = "exit"
    /\ returned' = [op |-> "raise"]
    /\ attempts' = Append(attempts, <<file_idx, "raised">>)
    /\ UNCHANGED <<matcher_vars, extractor_vars, processor_vars, invoice_files,
                   run_mode, calls, response, reported, summary>>

\* lines 99-103: extract_invoice_data and the read of the extractor's counters
Extract ==
    /\ pc = "start"
    /\ file_idx <= Len(invoice_files)
    /\ LET f == invoice_files[file_idx]
       IN  \E rendered \in BOOLEAN :
           \E outcome \in IF ExtractCalls(f.suffix, rendered)
                          THEN ExtractOutcomes(f) ELSE {ExtractNoCall} :
              /\ response' = outcome
              /\ calls' = IF outcome.kind = "none" THEN calls
                          ELSE Append(calls, <<file_idx, "extract">>)
              /\ ex_last_prompt_tokens' = CapturedPrompt(ex_last_prompt_tokens, outcome)
              /\ ex_last_completion_tokens' =
                     CapturedCompletion(ex_last_completion_tokens, outcome)
              /\ extracted_data' = extract_invoice_data(f.suffix, rendered, outcome)
              /\ returned' = [op |-> "extract", suffix |-> f.suffix]
              /\ reported' = Delivered(NoneReported, outcome)
    /\ invoice_prompt_tokens' = ex_last_prompt_tokens'
    /\ invoice_completion_tokens' = ex_last_completion_tokens'
    /\ pc' = "extracted"
    /\ raised' = ""
    /\ UNCHANGED <<matcher_vars, processor_vars, batch_vars, is_tax_exempt,
                   processed_line_items, total_pre_tax, total_tax, item_idx,
                   attempts, summary>>

\* lines 106-119: the exemption check and the start of the line-item loop
CheckExempt ==
    /\ pc = "extracted"
    /\ LET notes == Get(extracted_data.notes, JStr(<<>>))
       IN  /\ ~NotesRaises(notes)
           /\ \E outcome \in IF NotesBlank(notes) THEN {NoCall}
                              ELSE ExemptOutcomesOf(run_mode) :
              LET r == check_tax_exempt(notes, outcome)
              IN  /\ response' = outcome
                  /\ calls' = IF outcome.kind = "none" THEN calls
                              ELSE Append(calls, <<file_idx, "exempt">>)
                  /\ returned' = [op |-> "exempt", exempt |-> r.exempt,
                                  prompt_tokens |-> r.prompt_tokens,
                                  completion_tokens |-> r.completion_tokens]
                  /\ reported' = Delivered(reported, outcome)
                  /\ is_tax_exempt' = r.exempt
                  /\ invoice_prompt_tokens' = invoice_prompt_tokens + r.prompt_tokens
                  /\ invoice_completion_tokens' =
                         invoice_completion_tokens + r.completion_tokens
    /\ processed_line_items' = <<>>
    /\ total_pre_tax' = 0
    /\ total_tax' = 0
    /\ item_idx' = 1
    /\ pc' = "items"
    /\ UNCHANGED <<matcher_vars, extractor_vars, processor_vars, batch_vars,
                   extracted_data, raised, attempts, summary>>

\* line 41 on notes that are not a str: notes.strip() raises
CheckExemptRaises ==
    /\ pc = "extracted"
    /\ NotesRaises(Get(extracted_data.notes, JStr(<<>>)))
    /\ Abort("AttributeError")

\* extracted_data.get('line_items', [])
LineItems == IF extracted_data.line_items.t = "absent" THEN <<>>
             ELSE extracted_data.line_items.items

\* lines 123-125 for one raw line item
Coerce(item) ==
    LET quantity == PyFloat(Get(item.quantity, JNum(0)), 1)
        unit_price == PyFloat(Get(item.unit_price, JNum(0)), MoneyScale)
        line_total == PyFloat(Get(item.total, JNum(quantity.v * unit_price.v)), MoneyScale)
    IN  IF ~quantity.ok THEN Raise(quantity.err)
        ELSE IF ~unit_price.ok THEN Raise(unit_price.err)
        ELSE IF ~line_total.ok THEN Raise(line_total.err)
        ELSE [ok |-> TRUE, err |-> "", quantity |-> quantity.v,
              unit_price |-> unit_price.v, line_total |-> line_total.v]

\* variant: the tax is rounded to the cent when it is computed
TaxAmountRounded(line_total, tax_rate) ==
    Round2((line_total * tax_rate) \div (100 * RateScale))

\* line 140: line_total * (tax_rate / 100)
TaxAmount(line_total, tax_rate) == (line_total * tax_rate) \div (100 * RateScale)

\* variant: the exemption override of the rate is missing
ProcessedItemNoOverride(item, c, m, exempt) ==
    LET tax_category == IF exempt THEN m.category \o TAX_EXEMPT_MARKER ELSE m.category
        tax_amount == TaxAmount(c.line_total, m.rate)
    IN  [description |-> item.description,
         quantity |-> c.quantity,
         unit_price |-> c.unit_price,
         line_total |-> c.line_total,
         tax_category |-> tax_category,
         tax_rate |-> m.rate,
         tax_amount |-> tax_amount,
         line_total_with_tax |-> c.line_total + tax_amount]

\* lines 135-151: the processed item for a coerced item and a matcher result
ProcessedItem(item, c, m, exempt) ==
    LET tax_rate == IF exempt THEN 0 ELSE m.rate
        tax_category == IF exempt THEN m.category \o TAX_EXEMPT_MARKER ELSE m.category
        tax_amount == TaxAmount(c.line_total, tax_rate)
    IN  [description |-> item.description,
         quantity |-> c.quantity,
         unit_price |-> c.unit_price,
         line_total |-> c.line_total,
         tax_category |-> tax_category,
         tax_rate |-> tax_rate,
         tax_amount |-> tax_amount,
         line_total_with_tax |-> c.line_total + tax_amount]

\* line 121 when line_items is null: iterating None raises
LineItemsRaises ==
    /\ pc = "items"
    /\ extracted_data.line_items.t = "null"
    /\ Abort("TypeError")

\* lines 122-125 when float() raises on the current item
CoerceRaises ==
    /\ pc = "items"
    /\ extracted_data.line_items.t # "null"
    /\ item_idx <= Len(LineItems)
    /\ ~Coerce(LineItems[item_idx]).ok
    /\ Abort(Coerce(LineItems[item_idx]).err)

\* lines 122-155: one iteration of the line-item loop
ClassifyItem ==
    /\ pc = "items"
    /\ extracted_data.line_items.t # "null"
    /\ item_idx <= Len(LineItems)
    /\ LET item == LineItems[item_idx]
           c == Coerce(item)
       IN  /\ c.ok
           /\ \E outcome \in ClassifyOutcomesOf(run_mode) :
              LET m == match_category(categories, tax_rates, outcome)
                  p == ProcessedItem(item, c, m, is_tax_exempt)
              IN  /\ response' = outcome
                  /\ calls' = Append(calls, <<file_idx, "classify">>)
                  /\ returned' = [op |-> "classify", category |-> m.category,
                                  rate |-> m.rate]
                  /\ reported' = Delivered(reported, outcome)
                  /\ tm_last_prompt_tokens' =
                         CapturedPrompt(tm_last_prompt_tokens, outcome)
                  /\ tm_last_completion_tokens' =
                         CapturedCompletion(tm_last_completion_tokens, outcome)
                  /\ invoice_prompt_tokens' =
                         invoice_prompt_tokens + tm_last_prompt_tokens'
                  /\ invoice_completion_tokens' =
                         invoice_completion_tokens + tm_last_completion_tokens'
                  /\ processed_line_items' = Append(processed_line_items, p)
                  /\ total_pre_tax' = total_pre_tax + p.line_total
                  /\ total_tax' = total_tax + p.tax_amount
    /\ item_idx' = item_idx + 1
    /\ UNCHANGED <<categories, tax_rates, extractor_vars, processor_vars, batch_vars,
                   extracted_data, is_tax_exempt, pc, raised, attempts, summary>>

\* variant: the three totals are reported as accumulated, without round()
ResultUnrounded ==
    [InvoiceID |-> Get(extracted_data.invoice_number, JStr(UNKNOWN)),
     FileName |-> file_idx,
     VendorName |-> Get(extracted_data.vendor_name, JStr(UNKNOWN)),
     InvoiceDate |-> Get(extracted_data.invoice_date, JStr(<<>>)),
     AIPromptTokens |-> invoice_prompt_tokens,
     AICompletionTokens |-> invoice_completion_tokens,
     InvoicePreTaxTotal |-> total_pre_tax,
     InvoiceTaxTotal |-> total_tax,
     InvoicePostTaxTotal |-> total_pre_tax + total_tax,
     InvoiceLineItems |-> processed_line_items,
     SpecialNotes |-> Get(extracted_data.notes, JStr(<<>>))]

\* variant: the post-tax total leaves the tax out
ResultPostWithoutTax ==
    [InvoiceID |-> Get(extracted_data.invoice_number, JStr(UNKNOWN)),
     FileName |-> file_idx,
     VendorName |-> Get(extracted_data.vendor_name, JStr(UNKNOWN)),
     InvoiceDate |-> Get(extracted_data.invoice_date, JStr(<<>>)),
     AIPromptTokens |-> invoice_prompt_tokens,
     AICompletionTokens |-> invoice_completion_tokens,
     InvoicePreTaxTotal |-> Round2(total_pre_tax),
     InvoiceTaxTotal |-> Round2(total_tax),
     InvoicePostTaxTotal |-> Round2(total_pre_tax),
     InvoiceLineItems |-> processed_line_items,
     SpecialNotes |-> Get(extracted_data.notes, JStr(<<>>))]

\* lines 162-175: the result dictionary (the wall-clock stamp is left out)
Result ==
    [InvoiceID |-> Get(extracted_data.invoice_number, JStr(UNKNOWN)),
     FileName |-> file_idx,
     VendorName |-> Get(extracted_data.vendor_name, JStr(UNKNOWN)),
     InvoiceDate |-> Get(extracted_data.invoice_date, JStr(<<>>)),
     AIPromptTokens |-> invoice_prompt_tokens,
     AICompletionTokens |-> invoice_completion_tokens,
     InvoicePreTaxTotal |-> Round2(total_pre_tax),
     InvoiceTaxTotal |-> Round2(total_tax),
     InvoicePostTaxTotal |-> Round2(total_pre_tax + total_tax),
     InvoiceLineItems |-> processed_line_items,
     SpecialNotes |-> Get(extracted_data.notes, JStr(<<>>))]

\* lines 157-184: after the loop
Finish ==
    /\ pc = "items"
    /\ extracted_data.line_items.t # "null"
    /\ item_idx > Len(LineItems)
    /\ total_prompt_tokens' = total_prompt_tokens + invoice_prompt_tokens
    /\ total_completion_tokens' = total_completion_tokens + invoice_completion_tokens
    /\ results' = Append(results, Result)
    /\ ResetLocals
    /\ file_idx' = file_idx + 1
    /\ pc' = "start"
    /\ returned' = [op |-> "process_invoice"]
    /\ attempts' = Append(attempts, <<file_idx, "returned">>)
    /\ UNCHANGED <<matcher_vars, extractor_vars, invoice_files, run_mode, calls,
                   response, raised, reported, summary>>

\* process_all_invoices lines 212-215, or main after process_invoice returned
Complete ==
    /\ pc = "start"
    /\ file_idx > Len(invoice_files)
    /\ pc' = "done"
    /\ UNCHANGED <<matcher_vars, extractor_vars, processor_vars, batch_vars,
                   local_vars, calls, response, returned, raised, trace_vars,
                   summary>>

\* lines 292-296, 307 and 314: the figures of the summary report; a quotient
\* is kept as the pair of the two floats it divides
save_summary_report(rs) ==
    LET total_invoices == Len(rs)
        total_line_items == Sum([i \in 1..Len(rs) |-> Len(rs[i].InvoiceLineItems)])
        sum_pre_tax == Sum([i \in 1..Len(rs) |-> rs[i].InvoicePreTaxTotal])
        sum_tax == Sum([i \in 1..Len(rs) |-> rs[i].InvoiceTaxTotal])
        sum_post_tax == Sum([i \in 1..Len(rs) |-> rs[i].InvoicePostTaxTotal])
    IN  [written |-> TRUE,
         total_invoices |-> total_invoices,
         total_line_items |-> total_line_items,
         average_line_items |->
             IF total_invoices > 0
             THEN [num |-> total_line_items, den |-> total_invoices]
             ELSE [num |-> 0, den |-> 1],
         total_pre_tax |-> sum_pre_tax,
         total_tax |-> sum_tax,
         total_post_tax |-> sum_post_tax,
         effective_rate |->
             IF sum_pre_tax > 0
             THEN [num |-> sum_tax * 100, den |-> sum_pre_tax]
             ELSE [num |-> 0, den |-> 1]]

\* main lines 40-44: the reports are written once processing has returned
SaveSummary ==
    /\ pc = "done"
    /\ summary' = save_summary_report(results)
    /\ pc' = "reported"
    /\ UNCHANGED <<matcher_vars, extractor_vars, processor_vars, batch_vars,
                   local_vars, calls, response, returned, raised, trace_vars>>

Next ==
    \/ Extract
    \/ CheckExempt
    \/ CheckExemptRaises
    \/ LineItemsRaises
    \/ CoerceRaises
    \/ ClassifyItem
    \/ Finish
    \/ Complete
    \/ SaveSummary

Spec == Init /\ [][Next]_vars

SpecBatch == InitBatch /\ [][Next]_vars

----------------------------------------------------------------------------
(* TaxMatcher used directly *)

\* one call of match_category on the matcher (test_detailed.py line 95)
MatchCategory ==
    /\ pc = "matcher"
    /\ Len(calls) < MaxCalls
    /\ \E outcome \in MatcherOutcomes :
       LET m == match_category(categories, tax_rates, outcome)
       IN  /\ response' = outcome
           /\ calls' = Append(calls, <<0, "classify">>)
           /\ returned' = [op |-> "classify", category |-> m.category, rate |-> m.rate]
           /\ tm_last_prompt_tokens' = CapturedPrompt(tm_last_prompt_tokens, outcome)
           /\ tm_last_completion_tokens' =
                  CapturedCompletion(tm_last_completion_tokens, outcome)
    /\ UNCHANGED <<categories, tax_rates, extractor_vars, processor_vars, batch_vars,
                   local_vars, pc, raised, trace_vars, summary>>

NextMatcher == MatchCategory

SpecMatcher == InitMatcher /\ [][NextMatcher]_vars

----------------------------------------------------------------------------
(* Properties of TaxMatcher.match_category, checked under SpecMatcher *)

\* a match_category call has returned
Classified == returned.op = "classify"

\* the capability returned a str; Answer is that str after strip()
Answered == response.kind = "ok" /\ response.content # None
Answer == Strip(response.content)

\* valid is accepted for answer by a case-insensitive substring test in either
\* direction
SubstringEitherWay(valid, answer) ==
    \/ \E i \in 0..(Len(answer) - Len(valid)) :
          \A j \in 1..Len(valid) :
             LowerChar(answer[i + j]) = LowerChar(valid[j])
    \/ \E i \in 0..(Len(valid) - Len(answer)) :
          \A j \in 1..Len(answer) :
             LowerChar(valid[i + j]) = LowerChar(answer[j])

\* C1 as stated: whatever the table and the capability outcome, the category
\* name match_category returns is a key of the category table.
C1_ReturnsTableKey ==
    Classified => returned.category \in DOMAIN tax_rates

\* C1 amended: the category name match_category returns is a key of the
\* category table or the fixed default name "Packaged Snacks"; it is a key
\* whenever the table holds "Packaged Snacks".
C1_ReturnsTableKeyOrDefault ==
    Classified =>
        /\ returned.category \in DOMAIN tax_rates \cup {PackagedSnacks}
        /\ PackagedSnacks \in DOMAIN tax_rates => returned.category \in DOMAIN tax_rates

\* C1 witness: a nonsense answer on a table without "Packaged Snacks" was
\* resolved to the default name
C1_Witness ==
    /\ Classified
    /\ Answered
    /\ response.content = r_zzz
    /\ PackagedSnacks \notin DOMAIN tax_rates
    /\ returned.category = PackagedSnacks

\* C4 as stated: when the capability returns an empty string or the call
\* fails, match_category returns "Packaged Snacks" with its table rate, or
\* with 4.0 when the table does not hold that category.
C4_EmptyOrFailedGivesDefault ==
    (Classified /\ (response.kind = "fail" \/ (Answered /\ response.content = <<>>))) =>
        /\ returned.category = PackagedSnacks
        /\ returned.rate = IF PackagedSnacks \in DOMAIN tax_rates
                           THEN tax_rates[PackagedSnacks] ELSE DEFAULT_RATE

\* C5: the stripped answer is resolved in this order: a key of the table is
\* returned as it is; otherwise the first category in load order accepted by
\* the case-insensitive substring test in either direction; otherwise
\* "Packaged Snacks".  The rate is the table rate of the returned category
\* whenever that category is in the table.
C5_ResolutionOrder ==
    (Classified /\ Answered) =>
        LET hits == {i \in 1..Len(categories) : SubstringEitherWay(categories[i], Answer)}
        IN  /\ Answer \in DOMAIN tax_rates => returned.category = Answer
            /\ (Answer \notin DOMAIN tax_rates /\ hits # {}) =>
                   \E i \in hits : /\ \A j \in hits : i <= j
                                   /\ returned.category = categories[i]
            /\ (Answer \notin DOMAIN tax_rates /\ hits = {}) =>
                   returned.category = PackagedSnacks
            /\ returned.category \in DOMAIN tax_rates =>
                   returned.rate = tax_rates[returned.category]

\* C5 witness: the answer is no key, two different categories pass the
\* substring test and the one loaded first was returned
C5_Witness ==
    /\ Classified
    /\ Answered
    /\ Answer \notin DOMAIN tax_rates
    /\ \E i, j \in 1..Len(categories) :
          /\ i < j
          /\ categories[i] # categories[j]
          /\ SubstringEitherWay(categories[i], Answer)
          /\ SubstringEitherWay(categories[j], Answer)
          /\ \A k \in 1..(i - 1) : ~SubstringEitherWay(categories[k], Answer)
          /\ returned.category = categories[i]

\* C6 as stated: on every table that holds "Packaged Snacks", whatever else
\* it holds and in whatever order, the answer "snacks" gives "Packaged Snacks"
\* at its table rate.
C6_SnacksGivesPackagedSnacks ==
    (Classified /\ Answered /\ response.content = r_snacks
        /\ PackagedSnacks \in DOMAIN tax_rates) =>
        /\ returned.category = PackagedSnacks
        /\ returned.rate = tax_rates[PackagedSnacks]

\* position of the first "Packaged Snacks" row
FirstPackagedSnacks == CHOOSE i \in 1..Len(categories) :
                          /\ categories[i] = PackagedSnacks
                          /\ \A j \in 1..(i - 1) : categories[j] # PackagedSnacks

\* C6 amended: on every table that holds "Packaged Snacks" and no category
\* named exactly "snacks", the answer "snacks" gives "Packaged Snacks" at its
\* table rate provided no category loaded before "Packaged Snacks" contains
\* "snacks" or is contained in it, ignoring case.
C6_SnacksGivesPackagedSnacksIfFirst ==
    (Classified /\ Answered /\ response.content = r_snacks
        /\ PackagedSnacks \in DOMAIN tax_rates
        /\ r_snacks \notin DOMAIN tax_rates
        /\ \A j \in 1..(FirstPackagedSnacks - 1) :
              ~SubstringEitherWay(categories[j], r_snacks)) =>
        /\ returned.category = PackagedSnacks
        /\ returned.rate = tax_rates[PackagedSnacks]

\* C6 witness: "snacks" was answered on a table where "Snacks" is loaded after
\* "Packaged Snacks", and "Packaged Snacks" was returned
C6_Witness ==
    /\ Classified
    /\ Answered
    /\ response.content = r_snacks
    /\ \E i, j \in 1..Len(categories) :
          i < j /\ categories[i] = PackagedSnacks /\ categories[j] = Snacks
    /\ categories[1] = PackagedSnacks
    /\ returned.category = PackagedSnacks

----------------------------------------------------------------------------
(* Properties of process_invoice and its components, checked under Spec *)

\* s ends with the exemption marker
EndsWithMarker(s) ==
    /\ Len(s) >= Len(TAX_EXEMPT_MARKER)
    /\ SubSeq(s, Len(s) - Len(TAX_EXEMPT_MARKER) + 1, Len(s)) = TAX_EXEMPT_MARKER

\* the line-item loop of the current invoice is running
InLoop == pc = "items"

\* C2: on an invoice whose exemption flag is true every emitted line item has
\* tax_rate 0 and tax_amount 0, and its tax_category is the category
\* match_category returned followed by " (TAX-EXEMPT)", whatever category and
\* rate match_category returned.
C2_ExemptOverride ==
    (InLoop /\ is_tax_exempt) =>
        /\ \A i \in 1..Len(processed_line_items) :
              /\ processed_line_items[i].tax_rate = 0
              /\ processed_line_items[i].tax_amount = 0
              /\ EndsWithMarker(processed_line_items[i].tax_category)
        /\ (returned.op = "classify") =>
              processed_line_items[Len(processed_line_items)].tax_category
                  = returned.category \o TAX_EXEMPT_MARKER

\* C2 witness: an exempt invoice on which match_category returned a non-zero
\* rate for a line item with a non-zero total
C2_Witness ==
    /\ InLoop
    /\ is_tax_exempt
    /\ returned.op = "classify"
    /\ returned.rate > 0
    /\ processed_line_items[Len(processed_line_items)].line_total > 0

\* extract_invoice_data has just returned
Extracted == pc = "extracted"

\* the failure classes of an extraction
Unsupported == Lower(returned.suffix) # PdfSuffix
RenderFailed == ~Unsupported /\ response.kind = "none"
ExtractCallFailed == response.kind = "fail"
MalformedJson == response.kind = "ok" /\ response.content.t # "json"
ExtractionFailed == Unsupported \/ RenderFailed \/ ExtractCallFailed \/ MalformedJson

\* C3 as stated: on every failure class extract_invoice_data returns (does not
\* raise) a record with invoice_number "ERROR" ("UNKNOWN" only when the
\* document type is unsupported), empty vendor_name and invoice_date, no line
\* items and a non-empty note.
C3_SentinelAsStated ==
    (Extracted /\ ExtractionFailed) =>
        /\ raised = ""
        /\ extracted_data.invoice_number =
               IF Unsupported THEN JStr(UNKNOWN) ELSE JStr(ERROR)
        /\ extracted_data.vendor_name = JStr(<<>>)
        /\ extracted_data.invoice_date = JStr(<<>>)
        /\ extracted_data.line_items = ItemList(<<>>)
        /\ extracted_data.notes.t = "str"
        /\ extracted_data.notes.s # <<>>

\* C3 amended: on every failure class extract_invoice_data returns (does not
\* raise) a record whose invoice_number and vendor_name are both "ERROR" when
\* the inference call fails or its response is not parseable JSON, and both
\* "UNKNOWN" when the document type is unsupported or rendering produced no
\* page image, with empty invoice_date, no line items and a non-empty note.
C3_Sentinel ==
    (Extracted /\ ExtractionFailed) =>
        /\ raised = ""
        /\ extracted_data.invoice_number =
               IF Unsupported \/ RenderFailed THEN JStr(UNKNOWN) ELSE JStr(ERROR)
        /\ extracted_data.vendor_name = extracted_data.invoice_number
        /\ extracted_data.invoice_date = JStr(<<>>)
        /\ extracted_data.line_items = ItemList(<<>>)
        /\ extracted_data.notes.t = "str"
        /\ extracted_data.notes.s # <<>>

\* C3 witness: the call returned text that json.loads rejects and the record
\* carries "ERROR"
C3_Witness ==
    /\ Extracted
    /\ MalformedJson
    /\ response.content.t = "malformed"
    /\ extracted_data.invoice_number = JStr(ERROR)

\* _check_tax_exempt has just returned
ExemptChecked == returned.op = "exempt"

\* the notes given to _check_tax_exempt
NotesArg == Get(extracted_data.notes, JStr(<<>>))

\* the notes are a str with at least one non-whitespace character
NotesNonBlank ==
    NotesArg.t = "str" /\ \E i \in 1..Len(NotesArg.s) : NotesArg.s[i] \notin Whitespace

\* C7: _check_tax_exempt returns true exactly when the notes are non-blank,
\* the call succeeded and its answer, stripped and upper-cased, is "YES"; for
\* blank or missing notes it returns false with zero tokens and issues no
\* call; in every other case it returns false, and it does not raise.
C7_ExemptOnlyOnYes ==
    ExemptChecked =>
        /\ pc = "items" /\ raised = ""
        /\ is_tax_exempt = returned.exempt
        /\ returned.exempt <=>
              /\ NotesNonBlank
              /\ response.kind = "ok"
              /\ response.content # None
              /\ Upper(Strip(response.content)) = YES
        /\ ~NotesNonBlank =>
              /\ returned.prompt_tokens = 0
              /\ returned.completion_tokens = 0
              /\ response.kind = "none"
              /\ \A k \in 1..Len(calls) : calls[k] # <<file_idx, "exempt">>
        /\ NotesNonBlank =>
              /\ response.kind # "none"
              /\ calls[Len(calls)] = <<file_idx, "exempt">>

\* C7 witness: the answer " yes\n" on non-blank notes made the invoice exempt
C7_Witness ==
    /\ ExemptChecked
    /\ NotesNonBlank
    /\ response.content = r_yes
    /\ returned.exempt

\* the raw line item the loop handles next
HasNextItem ==
    /\ InLoop
    /\ extracted_data.line_items.t # "null"
    /\ item_idx <= Len(LineItems)
NextItem == LineItems[item_idx]

\* a numeric field that is missing, null or not a numeral
Unusable(v) ==
    \/ v.t \in {"absent", "null"}
    \/ v.t = "str" /\ \E i \in 1..Len(v.s) : ~IsDigit(v.s[i]) /\ v.s[i] \notin Whitespace \cup {"."}

\* a numeric field that holds a number
Numeric(v) == v.t = "num"

\* the step emits one more processed line item
Emits ==
    /\ Len(processed_line_items') = Len(processed_line_items) + 1
    /\ SubSeq(processed_line_items', 1, Len(processed_line_items)) = processed_line_items
Emitted == processed_line_items'[Len(processed_line_items) + 1]

\* C8 as stated: a line item whose quantity or unit_price is absent, null or
\* unparsable is processed with 0 for that field and a processed line item is
\* emitted for it; the invoice is not aborted.
C8_UnusableFieldDefaultsToZero ==
    [][(HasNextItem
          /\ (Unusable(NextItem.quantity) \/ Unusable(NextItem.unit_price))
          /\ NextItem.total.t # "null") =>
        /\ pc' = "items"
        /\ Emits
        /\ Unusable(NextItem.quantity) => Emitted.quantity = 0
        /\ Unusable(NextItem.unit_price) => Emitted.unit_price = 0]_vars

\* C9 as stated: for a line item with numeric quantity and unit_price whose
\* total is missing (key absent or value null) the emitted line_total is
\* quantity x unit_price exactly; when a numeric total is given the emitted
\* line_total is that total.
C9_LineTotal ==
    [][(HasNextItem /\ Numeric(NextItem.quantity) /\ Numeric(NextItem.unit_price)) =>
        /\ NextItem.total.t \in {"absent", "null"} =>
              /\ Emits
              /\ Emitted.line_total = NextItem.quantity.n * NextItem.unit_price.n
        /\ Numeric(NextItem.total) =>
              /\ Emits
              /\ Emitted.line_total = NextItem.total.n]_vars

\* every processed line item of the current invoice and of the results
EmittedItems ==
    {processed_line_items[i] : i \in 1..Len(processed_line_items)}
    \cup UNION {{results[k].InvoiceLineItems[i] :
                    i \in 1..Len(results[k].InvoiceLineItems)} : k \in 1..Len(results)}

\* C10 as stated: for every emitted line item tax_amount is
\* line_total x tax_rate / 100 rounded to 2 decimal places and
\* line_total_with_tax is line_total + tax_amount.
C10_TaxRounded ==
    \A it \in EmittedItems :
        /\ it.tax_amount = Round2((it.line_total * it.tax_rate) \div (100 * RateScale))
        /\ it.line_total_with_tax = it.line_total + it.tax_amount

\* C10 amended: for every emitted line item tax_amount is
\* line_total x tax_rate / 100, not rounded, and line_total_with_tax is
\* line_total + tax_amount.
C10_TaxExact ==
    \A it \in EmittedItems :
        /\ it.tax_amount * 100 * RateScale = it.line_total * it.tax_rate
        /\ it.line_total_with_tax = it.line_total + it.tax_amount

\* C10 witness: a result holds a line item whose tax is not a whole number of
\* cents
C10_Witness ==
    \E k \in 1..Len(results) :
        \E i \in 1..Len(results[k].InvoiceLineItems) :
            /\ results[k].InvoiceLineItems[i].tax_amount % CentUnits # 0
            /\ results[k].InvoiceLineItems[i].tax_rate > 0

----------------------------------------------------------------------------
(* C11: the three totals of an invoice result *)

LineTotals(r) == [i \in 1..Len(r.InvoiceLineItems) |-> r.InvoiceLineItems[i].line_total]
TaxAmounts(r) == [i \in 1..Len(r.InvoiceLineItems) |-> r.InvoiceLineItems[i].tax_amount]

Abs(x) == IF x < 0 THEN -x ELSE x

\* y is x rounded to two decimal places: a whole number of cents that is at
\* most half a cent away from x
IsRounded2(y, x) == y % CentUnits = 0 /\ 2 * Abs(y - x) <= CentUnits

UniformRate(r, rate) ==
    \A i \in 1..Len(r.InvoiceLineItems) : r.InvoiceLineItems[i].tax_rate = rate

\* C11: in every invoice result the pre-tax total is the sum of the line
\* totals of its items, the tax total the sum of their tax amounts and the
\* post-tax total the sum of both, each rounded to two decimal places; an
\* invoice without line items reports 0 three times, and line totals of
\* 100.00 at a uniform 8% give tax 8.00 and post-tax 108.00
C11_InvoiceTotals ==
    \A k \in 1..Len(results) :
       LET r == results[k]
           pre == Sum(LineTotals(r))
           tax == Sum(TaxAmounts(r))
       IN  /\ IsRounded2(r.InvoicePreTaxTotal, pre)
           /\ IsRounded2(r.InvoiceTaxTotal, tax)
           /\ IsRounded2(r.InvoicePostTaxTotal, pre + tax)
           /\ r.InvoiceLineItems = <<>> =>
                  /\ r.InvoicePreTaxTotal = 0
                  /\ r.InvoiceTaxTotal = 0
                  /\ r.InvoicePostTaxTotal = 0
           /\ (pre = 100 * MoneyScale /\ UniformRate(r, 8 * RateScale)) =>
                  /\ r.InvoiceTaxTotal = 8 * MoneyScale
                  /\ r.InvoicePostTaxTotal = 108 * MoneyScale

\* a result of two items whose tax sum is not a whole number of cents
C11_Witness ==
    \E k \in 1..Len(results) :
       /\ Len(results[k].InvoiceLineItems) >= 2
       /\ Sum(TaxAmounts(results[k])) % CentUnits # 0
       /\ results[k].InvoiceTaxTotal > 0

\* a result with line totals of 100.00 taxed at a uniform 8%
C11_Example ==
    \E k \in 1..Len(results) :
       /\ results[k].InvoiceLineItems # <<>>
       /\ Sum(LineTotals(results[k])) = 100 * MoneyScale
       /\ UniformRate(results[k], 8 * RateScale)

----------------------------------------------------------------------------
(* C12: the token counters of an invoice result *)

\* process_invoice has just returned the last result
JustReturned == returned.op = "process_invoice" /\ results # <<>>

\* C12: the AIPromptTokens and AICompletionTokens of an invoice result are the
\* sums of the counts the capability reported for exactly the calls made for
\* that invoice (extraction, exemption check, one classification per item); a
\* call that failed, was not issued or reported no usage adds 0, and the
\* counts of an earlier call are never added again
C12_TokensOfOwnCalls ==
    JustReturned =>
       /\ results[Len(results)].AIPromptTokens = reported.prompt_tokens
       /\ results[Len(results)].AICompletionTokens = reported.completion_tokens

----------------------------------------------------------------------------
(* C13: the batch loop *)

BatchOver == run_mode = "batch" /\ pc \in {"done", "reported"}

\* the indices of the attempts that ended with a result
Returned == SelectSeq(attempts, LAMBDA a : a[2] = "returned")
Raised == SelectSeq(attempts, LAMBDA a : a[2] = "raised")

\* every file up to the loop position was attempted exactly once, in order,
\* and the results are those of the attempts that returned, in order
AttemptedInOrder ==
    /\ Len(attempts) = file_idx - 1
    /\ \A i \in 1..Len(attempts) : attempts[i][1] = i
    /\ Len(results) = Len(Returned)
    /\ \A k \in 1..Len(results) : results[k].FileName = Returned[k][1]

\* how far the run has come: the file in hand, then the step within it; the
\* loop terminates because every step moves this forward, it is bounded,
\* and a run that is not over always has a next step
StepsPerFile == MaxItems + 4
Position ==
    file_idx * StepsPerFile
    + (CASE pc = "start" -> 0
         [] pc = "extracted" -> 1
         [] pc = "items" -> 1 + item_idx
         [] pc = "done" -> 1
         [] OTHER -> 2)
LastPosition == (Len(invoice_files) + 1) * StepsPerFile + 2

\* C13: process_all_invoices attempts every enumerated document exactly
\* once, in enumeration order, and terminates; a document whose processing
\* raises adds no result and the later documents are still processed; the
\* number of results is the number of documents that did not raise
C13_BatchLoop ==
    /\ [](AttemptedInOrder)
    /\ [](BatchOver => /\ Len(attempts) = Len(invoice_files)
                       /\ Len(results) = Len(invoice_files) - Len(Raised))
    /\ [](Position <= LastPosition /\ (~BatchOver => ENABLED Next))
    /\ [][Position' > Position]_vars

\* a finished batch in which a document raised and a later one gave a result
C13_Witness ==
    /\ BatchOver
    /\ \E i, j \in 1..Len(attempts) :
          i < j /\ attempts[i][2] = "raised" /\ attempts[j][2] = "returned"

----------------------------------------------------------------------------
(* C14: the figures of the summary report *)

\* an amount of money in whole cents (the reported totals are whole cents)
Cents(x) == x \div CentUnits

\* the quotient q (a pair num/den) is the number num/den
IsQuotient(q, num, den) == q.num * den = num * q.den

\* the sums of the reported totals over the results
SumPreTax == Sum([k \in 1..Len(results) |-> results[k].InvoicePreTaxTotal])
SumTax == Sum([k \in 1..Len(results) |-> results[k].InvoiceTaxTotal])

EffectiveRateInCents ==
    [num |-> Cents(summary.effective_rate.num), den |->
        IF summary.effective_rate.den = 1 THEN 1 ELSE Cents(summary.effective_rate.den)]

\* C14: the effective tax rate of the summary is totalTax / totalPreTax x 100
\* whenever the summed pre-tax total is not zero, and 0 when there are no
\* invoices or the summed pre-tax total is 0; the average number of line
\* items per invoice is 0 for an empty batch
C14_EffectiveRate ==
    summary.written =>
       /\ SumPreTax # 0 =>
             IsQuotient(EffectiveRateInCents, Cents(SumTax) * 100, Cents(SumPreTax))
       /\ (results = <<>> \/ SumPreTax = 0) => summary.effective_rate.num = 0
       /\ results = <<>> => summary.average_line_items.num = 0

\* the same with the rate asked for only when the summed pre-tax total is
\* positive: what the report computes for the totals that are not negative
C14_EffectiveRateOfPositiveTotal ==
    summary.written =>
       /\ SumPreTax > 0 =>
             IsQuotient(EffectiveRateInCents, Cents(SumTax) * 100, Cents(SumPreTax))
       /\ (results = <<>> \/ SumPreTax = 0) => summary.effective_rate.num = 0
       /\ results = <<>> => summary.average_line_items.num = 0
       /\ results # <<>> =>
             IsQuotient(summary.average_line_items,
                        Sum([k \in 1..Len(results) |-> Len(results[k].InvoiceLineItems)]),
                        Len(results))

----------------------------------------------------------------------------
(* C15: the order of the external calls *)

\* the kinds of the calls issued for file k, in the order they were issued
KindsOf(log, k) ==
    LET own == SelectSeq(log, LAMBDA c : c[1] = k)
    IN  [i \in 1..Len(own) |-> own[i][2]]

Repeat(x, n) == [i \in 1..n |-> x]

\* at most one extraction call, then at most one exemption call (none when
\* the notes are blank), then one classification call for each of n items
FixedOrder(kinds, blank, n) ==
    \E e \in 0..1 : \E x \in 0..(IF blank THEN 0 ELSE 1) :
       kinds = Repeat("extract", e) \o Repeat("exempt", x) \o Repeat("classify", n)

\* process_invoice is left in this step (it returns or an exception leaves it)
LeavesInvoice == pc \in {"extracted", "items"} /\ pc' \notin {"extracted", "items"}

Descriptions(items) == [i \in 1..Len(items) |-> items[i].description]

\* C15: the calls of one invoice come in a fixed order without retry: at most
\* one extraction call, then at most one exemption call (none when the notes
\* are blank), then exactly one classification call per extracted line item
\* in item order; no call of the next invoice is issued before the invoice in
\* hand has ended, and the line items of the result are in the order of the
\* extracted ones
C15_CallOrder ==
    /\ [][LeavesInvoice =>
             FixedOrder(KindsOf(calls', file_idx), ~NotesNonBlank, Len(LineItems))]_vars
    /\ [][calls' # calls =>
             /\ Len(calls') = Len(calls) + 1
             /\ SubSeq(calls', 1, Len(calls)) = calls
             /\ calls'[Len(calls')][1] = Len(attempts) + 1]_vars
    /\ [][results' # results =>
             Descriptions(results'[Len(results')].InvoiceLineItems)
                 = Descriptions(LineItems)]_vars

\* the same for the invoices that give a result: the order of the calls when
\* no exception leaves process_invoice
C15_CallOrderOfResults ==
    /\ [][(LeavesInvoice /\ results' # results) =>
             FixedOrder(KindsOf(calls', file_idx), ~NotesNonBlank, Len(LineItems))]_vars
    /\ [][(LeavesInvoice /\ results' = results) =>
             \E n \in 0..Len(LineItems) :
                FixedOrder(KindsOf(calls', file_idx), ~NotesNonBlank, n)]_vars
    /\ [][calls' # calls =>
             /\ Len(calls') = Len(calls) + 1
             /\ SubSeq(calls', 1, Len(calls)) = calls
             /\ calls'[Len(calls')][1] = Len(attempts) + 1]_vars
    /\ [][results' # results =>
             Descriptions(results'[Len(results')].InvoiceLineItems)
                 = Descriptions(LineItems)]_vars

----------------------------------------------------------------------------
(* C16: the cumulative token counters and the result list *)

\* an exception has left process_invoice in this step
InvoiceAborts ==
    /\ Len(attempts') = Len(attempts) + 1
    /\ attempts'[Len(attempts')][2] = "raised"

\* C16: after any sequence of process_invoice calls, returned or aborted, the
\* cumulative prompt and completion counters are the sums of AIPromptTokens
\* and AICompletionTokens over the results; the result list only grows by
\* appending, and an invoice that aborts changes neither the result list nor
\* the cumulative counters
C16_CumulativeTokens ==
    /\ [](/\ total_prompt_tokens
                = Sum([k \in 1..Len(results) |-> results[k].AIPromptTokens])
          /\ total_completion_tokens
                = Sum([k \in 1..Len(results) |-> results[k].AICompletionTokens]))
    /\ [][\/ results' = results
          \/ /\ Len(results') = Len(results) + 1
             /\ SubSeq(results', 1, Len(results)) = results]_vars
    /\ [][InvoiceAborts => UNCHANGED processor_vars]_vars

\* an invoice that had spent tokens has aborted after another gave a result
C16_Witness ==
    /\ returned.op = "raise"
    /\ results # <<>>
    /\ total_prompt_tokens > 0
    /\ reported.prompt_tokens > 0

----------------------------------------------------------------------------
(* C17: the three reported totals taken together *)

\* C17 as stated: in every invoice result the reported post-tax total is the
\* reported pre-tax total plus the reported tax total, for every combination
\* of line totals and tax rates
C17_PostIsPrePlusTax ==
    \A k \in 1..Len(results) :
       results[k].InvoicePostTaxTotal
           = results[k].InvoicePreTaxTotal + results[k].InvoiceTaxTotal

\* C17: in every invoice result the reported post-tax total is within one
\* cent of the reported pre-tax total plus the reported tax total, and equal
\* to it when the sums of the line totals and of the tax amounts are both
\* whole numbers of cents
C17_PostWithinOneCent ==
    \A k \in 1..Len(results) :
       LET r == results[k]
           gap == r.InvoicePostTaxTotal - (r.InvoicePreTaxTotal + r.InvoiceTaxTotal)
       IN  /\ Abs(gap) <= CentUnits
           /\ (Sum(LineTotals(r)) % CentUnits = 0 /\ Sum(TaxAmounts(r)) % CentUnits = 0)
                  => gap = 0

\* a result whose post-tax total is one cent away from pre-tax plus tax
C17_Witness ==
    \E k \in 1..Len(results) :
       /\ results[k].InvoiceTaxTotal >= 0
       /\ results[k].InvoicePostTaxTotal
              # results[k].InvoicePreTaxTotal + results[k].InvoiceTaxTotal

====
